---- MODULE Spec2Model ----
(***************************************************************************)
(* Model of stock_app.py, a Streamlit dashboard that values a portfolio    *)
(* held in three markets.                                                  *)
(*                                                                         *)
(* Numbers.  Python floats are modelled by exact integers in fixed units:  *)
(*   - prices, costs, dividends, cash and bond values: cents;              *)
(*   - exchange rates: tenths (7.2 is 72, the CN rate 1.0 is 10);          *)
(*   - yield thresholds buy_yld / sell_yld: tenths of a percent;           *)
(*   - values converted to CNY: cents * tenths (thousandths of a CNY);     *)
(*   - percentages computed by a division (change_pct, yield_now,          *)
(*     total_return_pct): the exact fraction [num, den], in percent.       *)
(* A value that may be None (a field of a quote, a rate) is a record: None *)
(* is [null |-> TRUE, v |-> 0] and x is [null |-> FALSE, v |-> x]; v is    *)
(* read only where null is FALSE.  A missing identifier (pandas NA) is the *)
(* string NA.  The float 0.0 that the column backfill writes into the      *)
(* string column 'action' is the string "0.0".                             *)
(***************************************************************************)
EXTENDS Integers, Sequences, FiniteSets, TLC

VARIABLES
    \* ---- one call of calculate_market_data (specification SpecEngine)
    input_df,        \* the table passed in
    currency_rate,   \* the rate passed in
    mode,            \* "yield" or "growth"
    batch_ok,        \* whether yf.Tickers(tickers) returned (line 83)
    quotes,          \* what data.tickers[code].fast_info gave, per kept row
    out_df,          \* the table returned
    quote_calls,     \* number of yf.Tickers calls made by the call
    epc,             \* "ready" before the call, "returned" after it
    \* ---- the script and what outlives a run of it (specification Spec)
    portfolio_setup_v2,  \* 'portfolio_setup_v2' in st.session_state
    cn_inputs,       \* st.session_state.cn_inputs
    sg_inputs,       \* st.session_state.sg_inputs
    us_inputs,       \* st.session_state.us_inputs
    rate_cache,      \* the st.cache_data entry of get_exchange_rates, or NoEntry
    cache_fresh,     \* whether the entry is younger than ttl
    last_good,       \* the latest pair of usable rates the Rate Source gave, or NoEntry
    rate_fetch,      \* the latest lookup: "hit", "fetched" or "failed"
    usd_rate,        \* line 56
    sgd_rate,        \* line 56
    cash,            \* the values of the cash_bond_form inputs
    df_cn_calc,      \* line 142
    df_sg_calc,      \* line 143
    df_us_calc,      \* line 144
    totals,          \* lines 147-156
    run_status,      \* "none", "done", or "crashed" (line 57 raised)
    trigger          \* what started the latest run of the script

evars == <<input_df, currency_rate, mode, batch_ok, quotes, out_df, quote_calls, epc>>
avars == <<portfolio_setup_v2, cn_inputs, sg_inputs, us_inputs, rate_cache, cache_fresh,
           last_good, rate_fetch, usd_rate, sgd_rate, cash, df_cn_calc, df_sg_calc,
           df_us_calc, totals, run_status, trigger>>
vars == <<evars, avars>>

(***************************************************************************)
(* Values                                                                  *)
(***************************************************************************)
None == [null |-> TRUE, v |-> 0]
Some(x) == [null |-> FALSE, v |-> x]
NA == "<NA>"

Pct(n, d) == [num |-> n, den |-> d]
ZeroPct == Pct(0, 1)

\* the signal strings of get_signal: "❌", "🟢 买入", "🔴 卖出", "⚪ 持有"
SigError == "data-error"
SigBuy == "buy"
SigSell == "sell"
SigHold == "hold"

(***************************************************************************)
(* calculate_market_data                                                   *)
(***************************************************************************)

\* required_cols with the value the backfill gives each of them (0.0)
DefaultCols ==
    [price |-> 0, change_pct |-> ZeroPct, change_amt |-> 0, mkt_val_local |-> 0,
     mkt_val_cny |-> 0, profit_cny |-> 0, yield_now |-> ZeroPct, action |-> "0.0",
     total_return_pct |-> ZeroPct]

\* required_cols (line 71)
required_cols == DOMAIN DefaultCols

\* for col in required_cols: if col not in df.columns: df[col] = 0.0
Backfill(row) == row @@ DefaultCols

NotBlank(row) == row.code # NA /\ row.code # ""

\* the cleaning with a drop_duplicates on 'code' added: repeated identifiers
\* lose their rows
RECURSIVE DropDuplicates(_)
DropDuplicates(df) ==
    IF df = <<>> THEN <<>>
    ELSE LET rest == DropDuplicates(Tail(df))
         IN  IF \E i \in 1..Len(rest) : rest[i].code = Head(df).code
             THEN rest ELSE <<Head(df)>> \o rest

CleanRows_Dedup(df) == DropDuplicates(SelectSeq(df, NotBlank))

\* df = df[df['code'].notna() & (df['code'] != "")]
CleanRows(df) == SelectSeq(df, NotBlank)

\* the body of the per-row try block: price, change and pct of one quote
ResolveQuote(q) ==
    IF ~q.ok
    THEN [price |-> 0, change |-> 0, pct |-> ZeroPct]
    ELSE LET price  == IF q.last_price = None THEN 0 ELSE q.last_price.v
             prev   == IF q.previous_close = None THEN 0 ELSE q.previous_close.v
             change == IF prev # 0 THEN price - prev ELSE 0
             pct    == IF prev > 0 THEN Pct(change * 100, prev) ELSE ZeroPct
         IN  [price |-> price, change |-> change, pct |-> pct]

\* yield_now >= threshold and yield_now <= threshold, threshold in tenths of a percent
PctGE(p, t) == p.num * 10 >= t * p.den
PctLE(p, t) == p.num * 10 <= t * p.den

get_signal(row) ==
    IF row.price <= 0 THEN SigError
    ELSE IF PctGE(row.yield_now, row.buy_yld) THEN SigBuy
    ELSE IF PctLE(row.yield_now, row.sell_yld) THEN SigSell
    ELSE SigHold

\* lines 111-118 for one row: the fetched columns and the values, r being
\* the row's price, change and pct
Valued(row, r, rate) ==
    [row EXCEPT !.price = r.price, !.change_pct = r.pct, !.change_amt = r.change,
                !.mkt_val_local = r.price * row.qty,
                !.mkt_val_cny = r.price * row.qty * rate,
                !.profit_cny = (r.price - row.cost) * row.qty * rate]

\* line 122
YieldNow(row) == IF row.price > 0 THEN Pct(row.exp_div * 100, row.price) ELSE ZeroPct

\* line 131
TotalReturnPct(row) ==
    IF row.cost > 0 THEN Pct((row.price - row.cost) * 100, row.cost) ELSE ZeroPct

\* lines 121-131: the strategy columns of a valued row
Strategy(row, md) ==
    IF md = "yield"
    THEN [row EXCEPT !.yield_now = YieldNow(row),
                     !.action = get_signal([row EXCEPT !.yield_now = YieldNow(row)])]
    ELSE IF md = "growth"
    THEN [row EXCEPT !.total_return_pct = TotalReturnPct(row)]
    ELSE row

\* lines 91-131 for one row with quote q
Annotate(row, q, rate, md) == Strategy(Valued(row, ResolveQuote(q), rate), md)

\* the rows kept by the cleaning, with the backfilled columns
Prepared(df) == CleanRows([i \in 1..Len(df) |-> Backfill(df[i])])

\* whether the call reaches yf.Tickers (line 78: if df.empty: return df)
CallsQuoteSource(df) == Prepared(df) # <<>>

\* the except branch of line 84 returning input_df, not the prepared df
calculate_market_data_ReturnInput(df_in, rate, md, bok, qs) ==
    LET df == Prepared(df_in)
    IN  IF df = <<>> THEN df
        ELSE IF ~bok THEN df_in
        ELSE [i \in 1..Len(df) |-> Annotate(df[i], qs[i], rate, md)]

\* calculate_market_data(input_df, currency_rate, mode), given what the Quote
\* Source does: bok = the batched request is built, qs = the per-row results
calculate_market_data(df_in, rate, md, bok, qs) ==
    LET df == Prepared(df_in)
    IN  IF df = <<>> THEN df
        ELSE IF ~bok THEN df
        ELSE [i \in 1..Len(df) |-> Annotate(df[i], qs[i], rate, md)]

(***************************************************************************)
(* Inputs of the engine specification                                      *)
(***************************************************************************)
MaxRows == 2

YieldRow(c, cost, qty, div, buy, sell) ==
    [code |-> c, name |-> c, cost |-> cost, qty |-> qty, exp_div |-> div,
     buy_yld |-> buy, sell_yld |-> sell]
GrowthRow(c, cost, qty) == [code |-> c, name |-> c, cost |-> cost, qty |-> qty]

\* rows of a yield table: a buy, a hold and a sell at price 10.00, the last one
\* with buy_yld < sell_yld and a zero cost; a blank and a missing identifier
YieldRows ==
    { YieldRow("X", 1000, 1000, 150, 120, 50),
      YieldRow("Z", 1000, 10, 80, 120, 50),
      YieldRow("Y", 0, 0, 0, 50, 70),
      YieldRow("", 1000, 10, 150, 120, 50),
      YieldRow(NA, 0, 0, 0, 0, 0) }

GrowthRows ==
    { GrowthRow("V", 40000, 10), GrowthRow("W", 0, 5),
      GrowthRow("", 100, 1), GrowthRow(NA, 0, 0) }

Tables(rows) == UNION { [1..n -> rows] : n \in 0..MaxRows }

\* the fields a quote can hold
PriceVals == <<Some(1000), Some(0), Some(-100), None>>
PrevVals == <<Some(990), Some(0), None, Some(-100)>>

\* a quote whose access raises or which lacks a field
FailedQuote == [ok |-> FALSE, last_price |-> None, previous_close |-> None]

\* the quotes a row can get: the failed one, or any pair of fields
QuoteVals ==
    [k \in 0..(Len(PriceVals) * Len(PrevVals)) |->
        IF k = 0 THEN FailedQuote
        ELSE [ok |-> TRUE,
              last_price |-> PriceVals[((k - 1) \div Len(PrevVals)) + 1],
              previous_close |-> PrevVals[((k - 1) % Len(PrevVals)) + 1]]]

\* the three ways the script calls the engine (lines 142-144): CN at 1.0,
\* SG at the SGD rate, US at the USD rate
EngineCalls ==
    { [mode |-> "yield", rate |-> 10, rows |-> YieldRows],
      [mode |-> "yield", rate |-> 53, rows |-> YieldRows],
      [mode |-> "growth", rate |-> 72, rows |-> GrowthRows] }

(***************************************************************************)
(* The script: session state, rate cache, valuation pass, editors          *)
(***************************************************************************)

\* lines 24-28
SeedCN ==
    << YieldRow("601919.SS", 1000, 1000, 150, 120, 50),
       YieldRow("600900.SS", 2200, 500, 90, 40, 20),
       YieldRow("0941.HK", 6500, 500, 480, 70, 30) >>
\* lines 30-33
SeedSG ==
    << YieldRow("C38U.SI", 190, 2000, 10, 60, 40),
       YieldRow("M44U.SI", 150, 3000, 8, 65, 45) >>
\* lines 35-39
SeedUS ==
    << GrowthRow("VOO", 40000, 10), GrowthRow("NVDA", 45000, 5),
       GrowthRow("AAPL", 17000, 10) >>

\* the defaults of the four number inputs of cash_bond_form (lines 60-63)
DefaultCash ==
    [cash_cny |-> 5000000, cash_sgd |-> 1000000, cash_usd |-> 500000,
     bond_usd_val |-> 2000000]

\* the CN market is valued at currency_rate 1.0 (line 142)
RateOne == 10
\* the rates of the except branch of get_exchange_rates (line 54)
DefaultUsd == 72
DefaultSgd == 53
DefaultRates == [usd |-> Some(DefaultUsd), sgd |-> Some(DefaultSgd)]

\* what the Rate Source can do on a fetch: answer fast_info['last_price'] of
\* the two pairs, which may be zero, negative or null, or raise
RateOutcomes ==
    << [ok |-> TRUE, pair |-> [usd |-> Some(71), sgd |-> Some(52)]],
       [ok |-> TRUE, pair |-> [usd |-> Some(0), sgd |-> Some(52)]],
       [ok |-> TRUE, pair |-> [usd |-> Some(-71), sgd |-> Some(52)]],
       [ok |-> TRUE, pair |-> [usd |-> None, sgd |-> Some(52)]],
       [ok |-> FALSE, pair |-> DefaultRates] >>

\* the body of get_exchange_rates on Rate Source outcome o
get_exchange_rates(o) == IF o.ok THEN o.pair ELSE DefaultRates

\* @st.cache_data(ttl=3600): a fresh entry is returned without running the body
NoEntry == <<>>
Entry(pair) == <<pair>>
CacheHit == rate_cache # NoEntry /\ cache_fresh

\* the lookup of line 56: the fresh entry, or the body run on each outcome the
\* Rate Source can have
Lookups ==
    IF CacheHit
    THEN << [kind |-> "hit", pair |-> rate_cache[1]] >>
    ELSE [k \in DOMAIN RateOutcomes |->
            [kind |-> IF RateOutcomes[k].ok THEN "fetched" ELSE "failed",
             pair |-> get_exchange_rates(RateOutcomes[k])]]

\* a pair of usable rates
Good(pair) == ~pair.usd.null /\ ~pair.sgd.null /\ pair.usd.v > 0 /\ pair.sgd.v > 0

\* what the lookup lk leaves in the cache: the result of a run body is stored
Store(lk) ==
    /\ last_good' = IF lk.kind = "fetched" /\ Good(lk.pair) THEN Entry(lk.pair) ELSE last_good
    /\ rate_fetch' = lk.kind
    /\ rate_cache' = IF lk.kind = "hit" THEN rate_cache ELSE Entry(lk.pair)
    /\ cache_fresh' = TRUE
    /\ usd_rate' = lk.pair.usd
    /\ sgd_rate' = lk.pair.sgd

RECURSIVE SumCol(_, _)
SumCol(df, col) == IF df = <<>> THEN 0 ELSE Head(df)[col] + SumCol(Tail(df), col)

RECURSIVE SumDayGain(_, _)
SumDayGain(df, rate) ==
    IF df = <<>> THEN 0
    ELSE Head(df).change_amt * Head(df).qty * rate + SumDayGain(Tail(df), rate)

\* the totals with the bond left out of net_worth
Aggregate_NoBond(cn, sg, us, usd, sgd, c) ==
    LET total_stock_cny == SumCol(cn, "mkt_val_cny") + SumCol(sg, "mkt_val_cny")
                           + SumCol(us, "mkt_val_cny")
        total_cash_cny  == c.cash_cny * RateOne + c.cash_sgd * sgd + c.cash_usd * usd
        total_bond_cny  == c.bond_usd_val * usd
    IN  [total_stock_cny |-> total_stock_cny, total_cash_cny |-> total_cash_cny,
         total_bond_cny |-> total_bond_cny,
         net_worth |-> total_stock_cny + total_cash_cny,
         total_profit |-> SumCol(cn, "profit_cny") + SumCol(sg, "profit_cny")
                          + SumCol(us, "profit_cny"),
         total_day_gain |-> SumDayGain(cn, RateOne) + SumDayGain(sg, sgd)
                            + SumDayGain(us, usd)]

\* lines 147-156
Aggregate(cn, sg, us, usd, sgd, c) ==
    LET total_stock_cny == SumCol(cn, "mkt_val_cny") + SumCol(sg, "mkt_val_cny")
                           + SumCol(us, "mkt_val_cny")
        total_cash_cny  == c.cash_cny * RateOne + c.cash_sgd * sgd + c.cash_usd * usd
        total_bond_cny  == c.bond_usd_val * usd
    IN  [total_stock_cny |-> total_stock_cny, total_cash_cny |-> total_cash_cny,
         total_bond_cny |-> total_bond_cny,
         net_worth |-> total_stock_cny + total_cash_cny + total_bond_cny,
         total_profit |-> SumCol(cn, "profit_cny") + SumCol(sg, "profit_cny")
                          + SumCol(us, "profit_cny"),
         total_day_gain |-> SumDayGain(cn, RateOne) + SumDayGain(sg, sgd)
                            + SumDayGain(us, usd)]

NoTotals ==
    [total_stock_cny |-> 0, total_cash_cny |-> 0, total_bond_cny |-> 0, net_worth |-> 0,
     total_profit |-> 0, total_day_gain |-> 0]

\* what the Quote Source does to one market's call: the batched request fails
\* (Down), or it is built and every identifier fails (Unknown) or resolves (Up)
GoodQuote == [ok |-> TRUE, last_price |-> Some(1000), previous_close |-> Some(990)]
Down == [bok |-> FALSE, q |-> FailedQuote]
Unknown == [bok |-> TRUE, q |-> FailedQuote]
Up == [bok |-> TRUE, q |-> GoodQuote]

\* what it does to the three calls of one pass
PassOutcomes ==
    { [cn |-> o, sg |-> o, us |-> o] : o \in {Down, Unknown, Up} }
    \cup { [cn |-> Down, sg |-> Unknown, us |-> Up] }

Calc(df, rate, md, o) ==
    calculate_market_data(df, rate, md, o.bok, [i \in 1..Len(Prepared(df)) |-> o.q])

NoEdit == [market |-> "none", table |-> <<>>]

\* what st.data_editor returns for market m: the table passed in, with the
\* user's edit of this run applied to it
Edited(m, table, edit) == IF edit.market = m THEN edit.table ELSE table

\* lines 139-156: the valuation pass over the tables cn, sg, us
Pass(cn, sg, us, usd, sgd, c, o) ==
    \E dcn \in {Calc(cn, RateOne, "yield", o.cn)},
       dsg \in {Calc(sg, sgd, "yield", o.sg)},
       dus \in {Calc(us, usd, "growth", o.us)} :
        /\ df_cn_calc' = dcn
        /\ df_sg_calc' = dsg
        /\ df_us_calc' = dus
        /\ totals' = Aggregate(dcn, dsg, dus, usd, sgd, c)

\* One run of the script from line 17 on.  sess: the session tables the run
\* starts with (none after a reset); c: the values of the form inputs; edit: the
\* edit a data editor holds
RunScript(sess, c, edit) ==
    LET cn == IF sess.setup THEN sess.cn ELSE SeedCN
        sg == IF sess.setup THEN sess.sg ELSE SeedSG
        us == IF sess.setup THEN sess.us ELSE SeedUS
    IN  /\ portfolio_setup_v2' = TRUE
        /\ cash' = c
        /\ \E k \in DOMAIN Lookups : \E lk \in {Lookups[k]} :
             /\ Store(lk)
             /\ IF lk.pair.usd = None \/ lk.pair.sgd = None
                THEN \* line 57: formatting a null rate raises and the run ends;
                     \* nothing below line 57 is executed
                     /\ run_status' = "crashed"
                     /\ cn_inputs' = cn /\ sg_inputs' = sg /\ us_inputs' = us
                     /\ df_cn_calc' = <<>> /\ df_sg_calc' = <<>> /\ df_us_calc' = <<>>
                     /\ totals' = NoTotals
                ELSE /\ \E o \in PassOutcomes :
                          Pass(cn, sg, us, lk.pair.usd.v, lk.pair.sgd.v, c, o)
                     \* lines 204-207 and 235-236, after the pass
                     /\ cn_inputs' = Edited("cn", cn, edit)
                     /\ sg_inputs' = Edited("sg", sg, edit)
                     /\ us_inputs' = Edited("us", us, edit)
                     /\ run_status' = "done"

Session == [setup |-> portfolio_setup_v2, cn |-> cn_inputs, sg |-> sg_inputs, us |-> us_inputs]
ClearedSession == [setup |-> FALSE, cn |-> <<>>, sg |-> <<>>, us |-> <<>>]

Init ==
    /\ portfolio_setup_v2 = FALSE
    /\ cn_inputs = <<>> /\ sg_inputs = <<>> /\ us_inputs = <<>>
    /\ rate_cache = NoEntry /\ cache_fresh = FALSE /\ last_good = NoEntry
    /\ rate_fetch = "none"
    /\ usd_rate = None /\ sgd_rate = None
    /\ cash = DefaultCash
    /\ df_cn_calc = <<>> /\ df_sg_calc = <<>> /\ df_us_calc = <<>>
    /\ totals = NoTotals
    /\ run_status = "none"
    /\ trigger = "none"
    /\ input_df = <<>> /\ currency_rate = RateOne /\ mode = "yield" /\ batch_ok = TRUE
    /\ quotes = <<>> /\ out_df = <<>> /\ quote_calls = 0 /\ epc = "idle"

\* the page is opened or reloaded
Refresh ==
    /\ trigger' = "refresh"
    /\ RunScript(Session, cash, NoEdit)

\* the form values a user submits
CashChoices == {DefaultCash, [DefaultCash EXCEPT !.cash_cny = 0, !.cash_sgd = 0, !.cash_usd = 0]}

\* "更新资产状态": the form of lines 59-64 is submitted
SubmitCash ==
    /\ run_status = "done"
    /\ \E c \in CashChoices :
         /\ c # cash
         /\ trigger' = "cash"
         /\ RunScript(Session, c, NoEdit)

Holdings(m) == IF m = "cn" THEN cn_inputs ELSE IF m = "sg" THEN sg_inputs ELSE us_inputs
Seed(m) == IF m = "cn" THEN SeedCN ELSE IF m = "sg" THEN SeedSG ELSE SeedUS
Markets == {"cn", "sg", "us"}

\* the tables an edit can leave in the editor of market m: every row deleted,
\* the seed rows entered again
EditChoices(m) == {<<>>, Seed(m)}

\* a row of the editor of market m is changed, added or deleted
EditHoldings ==
    /\ run_status = "done"
    /\ \E m \in Markets : \E t \in EditChoices(m) :
         /\ t # Holdings(m)
         /\ trigger' = "edit_" \o m
         /\ RunScript(Session, cash, [market |-> m, table |-> t])

\* lines 12-15: every key of st.session_state is deleted and the script reruns
Reset ==
    /\ run_status # "none"
    /\ trigger' = "reset"
    /\ RunScript(ClearedSession, cash, NoEdit)

\* an hour passes since the entry was stored
Expire ==
    /\ rate_cache # NoEntry
    /\ cache_fresh
    /\ cache_fresh' = FALSE
    /\ UNCHANGED <<portfolio_setup_v2, cn_inputs, sg_inputs, us_inputs, rate_cache,
                   last_good, rate_fetch, usd_rate, sgd_rate, cash, df_cn_calc,
                   df_sg_calc, df_us_calc, totals, run_status, trigger>>

Next ==
    \/ Refresh /\ UNCHANGED evars
    \/ SubmitCash /\ UNCHANGED evars
    \/ EditHoldings /\ UNCHANGED evars
    \/ Reset /\ UNCHANGED evars
    \/ Expire /\ UNCHANGED evars

Spec == Init /\ [][Next]_vars

(***************************************************************************)
(* One call of the engine on drawn inputs                                  *)
(***************************************************************************)
InitEngine ==
    /\ \E c \in EngineCalls :
         /\ mode = c.mode
         /\ currency_rate = c.rate
         /\ input_df \in Tables(c.rows)
    /\ batch_ok = TRUE
    /\ quotes = <<>>
    /\ out_df = <<>>
    /\ quote_calls = 0
    /\ epc = "ready"
    /\ portfolio_setup_v2 = FALSE
    /\ cn_inputs = <<>> /\ sg_inputs = <<>> /\ us_inputs = <<>>
    /\ rate_cache = NoEntry /\ cache_fresh = FALSE /\ last_good = NoEntry
    /\ rate_fetch = "none"
    /\ usd_rate = None /\ sgd_rate = None
    /\ cash = DefaultCash
    /\ df_cn_calc = <<>> /\ df_sg_calc = <<>> /\ df_us_calc = <<>>
    /\ totals = NoTotals
    /\ run_status = "none"
    /\ trigger = "none"

\* the table is empty after cleaning: returned before any fetch
CalcEmpty ==
    /\ epc = "ready"
    /\ ~CallsQuoteSource(input_df)
    /\ out_df' = calculate_market_data(input_df, currency_rate, mode, TRUE, <<>>)
    /\ epc' = "returned"
    /\ UNCHANGED <<input_df, currency_rate, mode, batch_ok, quotes, quote_calls>>

\* yf.Tickers raises: the except branch of line 84
CalcBatchFailure ==
    /\ epc = "ready"
    /\ CallsQuoteSource(input_df)
    /\ batch_ok' = FALSE
    /\ quote_calls' = quote_calls + 1
    /\ out_df' = calculate_market_data(input_df, currency_rate, mode, FALSE, <<>>)
    /\ epc' = "returned"
    /\ UNCHANGED <<input_df, currency_rate, mode, quotes>>

\* yf.Tickers returns and every row resolves its own quote
CalcQuotes ==
    /\ epc = "ready"
    /\ CallsQuoteSource(input_df)
    /\ \E ks \in [1..Len(Prepared(input_df)) -> DOMAIN QuoteVals] :
       \E qs \in {[i \in DOMAIN ks |-> QuoteVals[ks[i]]]} :
         /\ quotes' = qs
         /\ out_df' = calculate_market_data(input_df, currency_rate, mode, TRUE, qs)
    /\ quote_calls' = quote_calls + 1
    /\ epc' = "returned"
    /\ UNCHANGED <<input_df, currency_rate, mode, batch_ok>>

NextEngine ==
    \/ CalcEmpty /\ UNCHANGED avars
    \/ CalcBatchFailure /\ UNCHANGED avars
    \/ CalcQuotes /\ UNCHANGED avars

SpecEngine == InitEngine /\ [][NextEngine]_vars

(***************************************************************************)
(* Properties of one call of the engine (checked under SpecEngine)         *)
(***************************************************************************)
Returned == epc = "returned"

\* the rows of the input whose identifier is neither missing nor empty
Kept == SelectSeq(input_df, NotBlank)

\* the columns the input table came with
InputCols(row) == DOMAIN row \ required_cols
Restrict(row, cols) == [c \in cols |-> row[c]]

\* row i of a call that built the batched request: did its quote resolve
Unresolved(q) == ~q.ok \/ q.last_price = None
NoPrevClose(q) == ~q.ok \/ q.previous_close = None

\* C1: in a call whose batched request was built, a row whose quote does not
\* resolve (the access raises, a field is missing, the last price is null) has
\* price, change_amt and change_pct all 0, and every other row has the last
\* price of its own quote.
C1_UnresolvedQuoteZeroed ==
    (Returned /\ batch_ok) =>
        \A i \in 1..Len(out_df) :
            IF Unresolved(quotes[i])
            THEN /\ out_df[i].price = 0
                 /\ out_df[i].change_amt = 0
                 /\ out_df[i].change_pct.num = 0
            ELSE out_df[i].price = quotes[i].last_price.v

\* C2: every returned row whose previous close is missing, zero or negative has
\* change_pct = 0 and change_amt = 0, whatever its last price.
C2_NoPrevCloseNoChange ==
    Returned =>
        \A i \in 1..Len(out_df) :
            ( \/ ~batch_ok
              \/ NoPrevClose(quotes[i])
              \/ quotes[i].previous_close.v <= 0 )
            => /\ out_df[i].change_pct.num = 0
               /\ out_df[i].change_amt = 0

\* C3: in yield mode every returned row with price <= 0 carries the data-error
\* signal, on every path that returns rows.
C3_NonPositivePriceIsDataError ==
    (Returned /\ mode = "yield") =>
        \A i \in 1..Len(out_df) :
            out_df[i].price <= 0 => out_df[i].action = SigError

\* C6: when building the batched request raises, the call returns the kept
\* input rows, in their order, each with its input columns unchanged and every
\* derived numeric column equal to 0.
C6_BatchFailureReturnsZeroedRows ==
    (Returned /\ ~batch_ok) =>
        /\ Len(out_df) = Len(Kept)
        /\ \A i \in 1..Len(out_df) :
             /\ required_cols \subseteq DOMAIN out_df[i]
             /\ Restrict(out_df[i], InputCols(Kept[i])) = Kept[i]
             /\ out_df[i].price = 0
             /\ out_df[i].change_amt = 0
             /\ out_df[i].change_pct.num = 0
             /\ out_df[i].mkt_val_local = 0
             /\ out_df[i].mkt_val_cny = 0
             /\ out_df[i].profit_cny = 0
             /\ out_df[i].yield_now.num = 0
             /\ out_df[i].total_return_pct.num = 0

\* a batch failure on a two-row table one row of which is blank
C6_Witness ==
    /\ Returned /\ ~batch_ok /\ quote_calls = 1
    /\ Len(input_df) = 2 /\ Len(out_df) = 1

\* C7: the returned table has exactly the kept input rows, in their order, one
\* output row per input row even when identifiers repeat, whatever the Quote
\* Source did; when no row is kept the result is empty and the Quote Source
\* was not called.
C7_OneRowPerKeptRow ==
    Returned =>
        /\ Len(out_df) = Len(Kept)
        /\ \A i \in 1..Len(out_df) :
             Restrict(out_df[i], InputCols(Kept[i])) = Kept[i]
        /\ (Kept = <<>>) => (out_df = <<>> /\ quote_calls = 0)

\* two rows with the same identifier, each with its own output row
C7_Witness ==
    /\ Returned /\ batch_ok /\ quote_calls = 1
    /\ Len(input_df) = 2 /\ input_df[1].code = input_df[2].code
    /\ Len(out_df) = 2 /\ out_df[1].price > 0 /\ out_df[2].price = 0

(***************************************************************************)
(* Properties of the script (checked under Spec)                           *)
(***************************************************************************)
Ran == run_status # "none"

\* C4: a lookup whose fetch failed returns the last good rates the Rate Source
\* gave, when it ever gave any, and the hardcoded defaults only when it never did.
C4_FailedFetchKeepsCachedRate ==
    (Ran /\ rate_fetch = "failed") =>
        [usd |-> usd_rate, sgd |-> sgd_rate] =
            (IF last_good # NoEntry THEN last_good[1] ELSE DefaultRates)

\* C5: every rate a lookup returns is a number and is strictly positive.
C5_RatesStrictlyPositive ==
    Ran =>
        /\ ~usd_rate.null /\ ~sgd_rate.null
        /\ usd_rate.v > 0 /\ sgd_rate.v > 0

\* C8: after a reset every market's holdings are its seed and the rate cache was
\* emptied: the lookup of the run that follows the reset went to the Rate Source.
C8_ResetRestoresSeedsAndCache ==
    (trigger = "reset") =>
        /\ cn_inputs = SeedCN /\ sg_inputs = SeedSG /\ us_inputs = SeedUS
        /\ rate_fetch # "hit"

\* C9: after every valuation pass net worth is the sum of mkt_val_cny over the
\* three annotated tables, plus each cash balance times its rate, plus the bond
\* value times the USD rate; with empty tables and zero cash it is the bond value.
C9_NetWorthIsStockCashBond ==
    (run_status = "done") =>
        /\ totals.net_worth =
              SumCol(df_cn_calc, "mkt_val_cny") + SumCol(df_sg_calc, "mkt_val_cny")
              + SumCol(df_us_calc, "mkt_val_cny")
              + cash.cash_cny * RateOne + cash.cash_sgd * sgd_rate.v
              + cash.cash_usd * usd_rate.v
              + cash.bond_usd_val * usd_rate.v
        /\ totals.net_worth =
              totals.total_stock_cny + totals.total_cash_cny + totals.total_bond_cny
        /\ ( /\ df_cn_calc = <<>> /\ df_sg_calc = <<>> /\ df_us_calc = <<>>
             /\ cash.cash_cny = 0 /\ cash.cash_sgd = 0 /\ cash.cash_usd = 0 )
           => totals.net_worth = cash.bond_usd_val * usd_rate.v

\* a pass with stock, cash and bond all worth something
C9_Witness ==
    /\ run_status = "done"
    /\ totals.total_stock_cny > 0 /\ totals.total_cash_cny > 0 /\ totals.total_bond_cny > 0
    /\ df_cn_calc # <<>> /\ df_sg_calc # <<>> /\ df_us_calc # <<>>

\* a pass over three empty tables with no cash: net worth is the bond alone
C9_EmptyPortfolio ==
    /\ run_status = "done"
    /\ df_cn_calc = <<>> /\ df_sg_calc = <<>> /\ df_us_calc = <<>>
    /\ cash.cash_cny = 0 /\ cash.cash_sgd = 0 /\ cash.cash_usd = 0
    /\ totals.net_worth = totals.total_bond_cny /\ totals.net_worth > 0

\* the kept rows of a holdings table, as the annotated table shows them
ShownRows(df) == [i \in 1..Len(df) |-> Restrict(df[i], DOMAIN df[i] \ required_cols)]

\* C10: the annotated table of the pass that an edit of a market's holdings
\* started is computed from the holdings with that edit.
C10_PassSeesTheEdit ==
    (run_status = "done") =>
        /\ (trigger = "edit_cn") => ShownRows(df_cn_calc) = SelectSeq(cn_inputs, NotBlank)
        /\ (trigger = "edit_sg") => ShownRows(df_sg_calc) = SelectSeq(sg_inputs, NotBlank)
        /\ (trigger = "edit_us") => ShownRows(df_us_calc) = SelectSeq(us_inputs, NotBlank)

====
